---- MODULE Spec2Model ----
(***************************************************************************)
(* State-machine model of the RFQ form component, src/src/App.jsx.         *)
(*                                                                         *)
(* Text that the code inspects character by character (trim, the e-mail    *)
(* pattern, toLowerCase/endsWith, Number) is a sequence of one-character   *)
(* strings; text the code only stores and copies is a TLA+ string.         *)
(* JavaScript indices are 0-based: element i of an array is seq[i + 1].    *)
(*                                                                         *)
(* form.lineItems is a reference into `heap`: the payload built by         *)
(* buildPayload spreads `form`, so it holds the very array the form holds, *)
(* and useMemo compares the array by identity.                             *)
(***************************************************************************)
EXTENDS Integers, Sequences, FiniteSets, TLC

VARIABLES
    form,       \* useState(EMPTY_FORM); form.lineItems is a heap reference
    heap,       \* the line-item arrays, by reference
    errors,     \* useState({}): the keys of the stored validation errors
    submitted,  \* useState(false)
    pending,    \* the submitRFQ calls in flight, oldest first
    totalQty,   \* the value useMemo holds after the last render
    notice,     \* the last alert() shown
    events,     \* how many events the component has handled (Spec counts them)
    stale       \* history, kept by SpecReset: for each call in flight, whether
                \* the reset button was clicked after the call was started

state == <<form, heap, errors, submitted, pending, totalQty, notice>>

vars == <<state, events, stale>>

----------------------------------------------------------------------------
(* Bounds of the model.                                                    *)

\* addLineItem has no upper bound; the model stops adding at MaxItems
MaxItems == 2

\* files has no upper bound; a selection that would exceed MaxFiles is left out
MaxFiles == 2

\* submits in flight at once; a further valid submit waits for an outcome
MaxPending == 1

\* the length of the runs of Spec, in events handled
MaxEvents == 9

----------------------------------------------------------------------------
(* Strings as character sequences.                                         *)

Range(s) == {s[i] : i \in 1..Len(s)}

\* \s of the pattern and the characters String.prototype.trim strips
Whitespace == {" ", "\t", "\n"}

UpperCase == <<"A","B","C","D","E","F","G","H","I","J","K","L","M",
               "N","O","P","Q","R","S","T","U","V","W","X","Y","Z">>

LowerCase == <<"a","b","c","d","e","f","g","h","i","j","k","l","m",
               "n","o","p","q","r","s","t","u","v","w","x","y","z">>

\* the lower-case letter of each upper-case one
LowerOf ==
    [c \in Range(UpperCase) |->
        LowerCase[CHOOSE i \in 1..Len(UpperCase) : UpperCase[i] = c]]

toLowerCaseChar(c) == IF c \in DOMAIN LowerOf THEN LowerOf[c] ELSE c

toLowerCase(s) == [i \in 1..Len(s) |-> toLowerCaseChar(s[i])]

endsWith(s, ext) ==
    /\ Len(ext) <= Len(s)
    /\ SubSeq(s, Len(s) - Len(ext) + 1, Len(s)) = ext

RECURSIVE trimStart(_)
trimStart(s) ==
    IF s # <<>> /\ Head(s) \in Whitespace THEN trimStart(Tail(s)) ELSE s

RECURSIVE trimEnd(_)
trimEnd(s) ==
    IF s # <<>> /\ s[Len(s)] \in Whitespace
    THEN trimEnd(SubSeq(s, 1, Len(s) - 1))
    ELSE s

trim(s) == trimEnd(trimStart(s))

\* one or more characters of the class [^\s@]
NonSpaceNonAt(s, from, to) ==
    /\ from <= to
    /\ \A k \in from..to : s[k] \notin Whitespace /\ s[k] # "@"

\* /^[^\s@]+@[^\s@]+\.[^\s@]+$/.test(s)
emailPatternTest(s) ==
    \E i \in 1..Len(s) : \E j \in 1..Len(s) :
        /\ s[i] = "@"
        /\ s[j] = "."
        /\ NonSpaceNonAt(s, 1, i - 1)
        /\ NonSpaceNonAt(s, i + 1, j - 1)
        /\ NonSpaceNonAt(s, j + 1, Len(s))

Digits == <<"0","1","2","3","4","5","6","7","8","9">>

digitValue(c) == (CHOOSE i \in 1..Len(Digits) : Digits[i] = c) - 1

RECURSIVE digitsValue(_)
digitsValue(s) ==
    IF s = <<>> THEN 0
    ELSE 10 * digitsValue(SubSeq(s, 1, Len(s) - 1)) + digitValue(s[Len(s)])

\* Number(e.target.value) of the number input, whose value is either the
\* empty string (nothing or nothing numeric typed) or a numeral; the model
\* carries integer numerals.
Number(s) ==
    IF s = <<>> THEN 0
    ELSE IF Head(s) = "-" THEN 0 - digitsValue(Tail(s))
    ELSE digitsValue(s)

----------------------------------------------------------------------------
(* Program constants.                                                      *)

ACCEPTED_FILES ==
    << <<".","s","t","e","p">>, <<".","s","t","p">>, <<".","i","g","e","s">>,
       <<".","i","g","s">>, <<".","d","x","f">>, <<".","p","d","f">>,
       <<".","p","n","g">>, <<".","j","p","g">>, <<".","j","p","e","g">> >>

DEFAULT_LINE_ITEM ==
    [partName |-> <<>>, material |-> "", qty |-> 1, tolerance |-> "",
     surface |-> "", heatTreatment |-> "", notes |-> ""]

\* the array literal of EMPTY_FORM.lineItems: one object, never collected
EMPTY_FORM_lineItems == 0

EMPTY_FORM ==
    [company |-> <<>>, contact |-> <<>>, email |-> <<>>, phone |-> "",
     address |-> "", incoterms |-> "DAP", deliveryDate |-> "",
     currency |-> "EUR", NDA |-> FALSE,
     shippingPreference |-> "Best Available",
     files |-> <<>>, lineItems |-> EMPTY_FORM_lineItems]

IncotermsOptions == {"EXW", "FCA", "CPT", "CIP", "DAP", "DDP"}

CurrencyOptions == {"EUR", "USD", "GBP", "AED", "INR"}

\* the select with one more option than the declared ones
ShippingOptionsWithOther ==
    {"Best Available", "Express", "Economy", "Abholung", "Other"}

ShippingOptions == {"Best Available", "Express", "Economy", "Abholung"}

APP_NAME == "ManufacturingRFQApp"

PAYLOAD_VERSION == 1

----------------------------------------------------------------------------
(* The heap of line-item arrays.                                           *)

Refs == 0 .. (MaxPending + 2)

PendingRefs(p) == {p[i].payload.lineItems : i \in 1..Len(p)}

\* what the program can still reach: EMPTY_FORM's array, the form's, and
\* the arrays of the payloads in flight
Live(f, p) == {EMPTY_FORM_lineItems, f.lineItems} \cup PendingRefs(p)

\* a fresh array is none of the live ones
NewRef(f, p) ==
    CHOOSE r \in Refs :
        /\ r \notin Live(f, p)
        /\ \A q \in Refs : q \notin Live(f, p) => r <= q

\* unreachable arrays are garbage
Collect(h, f, p) == [r \in Refs |-> IF r \in Live(f, p) THEN h[r] ELSE <<>>]

lineItemsOf(f) == heap[f.lineItems]

----------------------------------------------------------------------------
(* Render: the derived total.                                              *)

RECURSIVE reduceQty(_, _)
\* items.reduce((s, li) => s + Number(li.qty || 0), s0); qty is a number
reduceQty(items, s) ==
    IF items = <<>> THEN s
    ELSE reduceQty(Tail(items), s + (IF Head(items).qty = 0 THEN 0 ELSE Head(items).qty))

computeTotalQty(items) == reduceQty(items, 0)

\* useMemo(..., []): computed once
RenderWithoutDeps == totalQty' = totalQty

\* useMemo(..., [form.lineItems]): recomputed when the array is another one
Render ==
    totalQty' = IF form'.lineItems = form.lineItems
                THEN totalQty
                ELSE computeTotalQty(heap'[form'.lineItems])

----------------------------------------------------------------------------
(* Field mutation operations.                                              *)

\* setForm(f => ({...f, lineItems: items})) with a freshly built array
setLineItems(items) ==
    LET r == NewRef(form, pending) IN
    /\ form' = [form EXCEPT !.lineItems = r]
    /\ heap' = Collect([heap EXCEPT ![r] = items], form', pending)

updateField(field, value) ==
    /\ form' = [form EXCEPT ![field] = value]
    /\ UNCHANGED <<heap, errors, submitted, pending, notice>>
    /\ Render

\* {...li, ...patch}
mergePatch(li, patch) ==
    [k \in DOMAIN li \cup DOMAIN patch |->
        IF k \in DOMAIN patch THEN patch[k] ELSE li[k]]

\* a map that counts the positions from 1: the patch lands one item early
mapPatchFromOne(items, index, patch) ==
    [k \in 1..Len(items) |->
        IF k = index THEN mergePatch(items[k], patch) ELSE items[k]]

\* f.lineItems.map((li, i) => (i === index ? {...li, ...patch} : li))
mapPatch(items, index, patch) ==
    [k \in 1..Len(items) |->
        IF k - 1 = index THEN mergePatch(items[k], patch) ELSE items[k]]

updateLineItem(index, patch) ==
    /\ setLineItems(mapPatch(lineItemsOf(form), index, patch))
    /\ UNCHANGED <<errors, submitted, pending, notice>>
    /\ Render

\* f.lineItems.push({...DEFAULT_LINE_ITEM}): the array the form holds grows
addLineItemInPlace ==
    /\ Len(lineItemsOf(form)) < MaxItems
    /\ heap' = [heap EXCEPT ![form.lineItems] = Append(@, DEFAULT_LINE_ITEM)]
    /\ UNCHANGED <<form, errors, submitted, pending, notice>>
    /\ Render

addLineItem ==
    /\ Len(lineItemsOf(form)) < MaxItems
    /\ setLineItems(Append(lineItemsOf(form), DEFAULT_LINE_ITEM))
    /\ UNCHANGED <<errors, submitted, pending, notice>>
    /\ Render

\* items.filter((_, i) => i !== index)
filterIndex(items, index) ==
    LET keep == {k \in 1..Len(items) : k - 1 # index}
        pos(n) == CHOOSE k \in keep : Cardinality({m \in keep : m < k}) = n - 1
    IN [n \in 1..Cardinality(keep) |-> items[pos(n)]]

removeLineItem(index) ==
    /\ setLineItems(filterIndex(lineItemsOf(form), index))
    /\ UNCHANGED <<errors, submitted, pending, notice>>
    /\ Render

\* the button rendered for every position, also for the only one
RemoveButtonAlwaysRendered(i) ==
    /\ i \in 0 .. Len(lineItemsOf(form)) - 1
    /\ removeLineItem(i)

\* the "Entfernen" button of position i, rendered only when there are
\* at least two positions
RemoveButton(i) ==
    /\ Len(lineItemsOf(form)) > 1
    /\ i \in 0 .. Len(lineItemsOf(form)) - 1
    /\ removeLineItem(i)

\* the suffix test without toLowerCase()
acceptedCaseSensitive(f) ==
    \E e \in 1..Len(ACCEPTED_FILES) : endsWith(f.name, ACCEPTED_FILES[e])

\* ACCEPTED_FILES.some(ext => f.name.toLowerCase().endsWith(ext))
accepted(f) ==
    LET lower == toLowerCase(f.name) IN
    \E e \in 1..Len(ACCEPTED_FILES) : endsWith(lower, ACCEPTED_FILES[e])

\* valid = Array.from(files).filter(accepted)
validFiles(files) == SelectSeq(files, accepted)

\* rejected = Array.from(files).filter(f => !valid.includes(f)); whether a
\* File is in `valid` depends on its name alone, so value and identity agree
rejectedFiles(files, valid) ==
    SelectSeq(files, LAMBDA f : f \notin Range(valid))

onFilesSelected(files) ==
    LET valid == validFiles(files)
        rejected == rejectedFiles(files, valid)
    IN
    /\ Len(form.files) + Len(valid) <= MaxFiles
    /\ notice' = IF rejected # <<>> THEN "rejectedFiles" ELSE notice
    /\ form' = [form EXCEPT !.files = form.files \o valid]
    /\ UNCHANGED <<heap, errors, submitted, pending>>
    /\ Render

removeFile(idx) ==
    /\ form' = [form EXCEPT !.files = filterIndex(form.files, idx)]
    /\ UNCHANGED <<heap, errors, submitted, pending, notice>>
    /\ Render

----------------------------------------------------------------------------
(* Validation.                                                             *)

liKey(i, name) == "li_" \o ToString(i) \o "_" \o name

\* validate() returning at the first violated rule
validateErrorsFirstOnly(f, items) ==
    IF trim(f.company) = <<>> THEN {"company"}
    ELSE IF trim(f.contact) = <<>> THEN {"contact"}
    ELSE IF ~emailPatternTest(f.email) THEN {"email"}
    ELSE IF f.deliveryDate = "" THEN {"deliveryDate"}
    ELSE IF Len(items) = 0 THEN {"lineItems"}
    ELSE IF \E n \in 1..Len(items) : trim(items[n].partName) = <<>>
    THEN {liKey(n - 1, "partName") : n \in {CHOOSE m \in 1..Len(items) : trim(items[m].partName) = <<>>}}
    ELSE IF \E n \in 1..Len(items) : items[n].qty <= 0
    THEN {liKey(n - 1, "qty") : n \in {CHOOSE m \in 1..Len(items) : items[m].qty <= 0}}
    ELSE {}

\* the keys of the object `e` that validate() fills for form f with line
\* items `items`
validateErrors(f, items) ==
    (IF trim(f.company) = <<>> THEN {"company"} ELSE {})
    \cup (IF trim(f.contact) = <<>> THEN {"contact"} ELSE {})
    \cup (IF ~emailPatternTest(f.email) THEN {"email"} ELSE {})
    \cup (IF f.deliveryDate = "" THEN {"deliveryDate"} ELSE {})
    \cup (IF Len(items) = 0 THEN {"lineItems"} ELSE {})
    \cup {liKey(k - 1, "partName") : k \in {n \in 1..Len(items) : trim(items[n].partName) = <<>>}}
    \cup {liKey(k - 1, "qty") : k \in {n \in 1..Len(items) : items[n].qty = 0 \/ items[n].qty <= 0}}

\* validate(): setErrors(e); return Object.keys(e).length === 0
validate ==
    /\ errors' = validateErrors(form, lineItemsOf(form))

----------------------------------------------------------------------------
(* Payload construction.                                                   *)

\* the File objects handed on as they are
toSerializableFilesWhole(files) == files

toSerializableFiles(files) ==
    [i \in 1..Len(files) |->
        [name |-> files[i].name, size |-> files[i].size, type |-> files[i].type]]

\* {meta: {...}, ...form, files: toSerializableFiles(form.files)}; t is
\* what new Date() reads
buildPayload(f, t) ==
    [k \in {"meta"} \cup DOMAIN f |->
        IF k = "files" THEN toSerializableFiles(f.files)
        ELSE IF k \in DOMAIN f THEN f[k]
        ELSE [createdAt |-> t, app |-> APP_NAME, version |-> PAYLOAD_VERSION]]

\* a payload with its lineItems array read through the heap
payloadValue(p, h) == [p EXCEPT !.lineItems = h[p.lineItems]]

\* the readings of the clock
Times == {0, 1}

----------------------------------------------------------------------------
(* Submission.                                                             *)

\* drop element i (1-based) of the calls in flight
without(p, i) == SubSeq(p, 1, i - 1) \o SubSeq(p, i + 1, Len(p))

\* `handed` records, by value, what submitRFQ was given
submitCall(f, t) ==
    [payload |-> buildPayload(f, t),
     handed  |-> payloadValue(buildPayload(f, t), heap)]

\* onSubmit ignoring what validate() returns
onSubmitUnvalidated(t) ==
    /\ validate
    /\ Len(pending) < MaxPending
    /\ pending' = Append(pending, submitCall(form, t))
    /\ UNCHANGED <<form, heap, submitted, notice>>
    /\ Render

\* onSubmit up to the await: validate, buildPayload, submitRFQ(payload)
onSubmit(t) ==
    /\ validate
    /\ IF errors' = {}
       THEN /\ Len(pending) < MaxPending
            /\ pending' = Append(pending, submitCall(form, t))
       ELSE UNCHANGED pending
    /\ UNCHANGED <<form, heap, submitted, notice>>
    /\ Render

\* the promise of call i resolves: setSubmitted(true); alert(...)
SubmitResolves(i) ==
    /\ i \in 1..Len(pending)
    /\ pending' = without(pending, i)
    /\ submitted' = TRUE
    /\ notice' = "success"
    /\ heap' = Collect(heap, form, pending')
    /\ UNCHANGED <<form, errors>>
    /\ Render

\* a failure that also clears the form
SubmitRejectsAndClears(i) ==
    /\ i \in 1..Len(pending)
    /\ pending' = without(pending, i)
    /\ notice' = "failure"
    /\ form' = EMPTY_FORM
    /\ heap' = Collect(heap, form', pending')
    /\ UNCHANGED <<errors, submitted>>
    /\ Render

\* the promise of call i rejects: console.error(err); alert(...)
SubmitRejects(i) ==
    /\ i \in 1..Len(pending)
    /\ pending' = without(pending, i)
    /\ notice' = "failure"
    /\ heap' = Collect(heap, form, pending')
    /\ UNCHANGED <<form, errors, submitted>>
    /\ Render

\* setForm(EMPTY_FORM); setErrors({}); setSubmitted(false)
Reset ==
    /\ form' = EMPTY_FORM
    /\ errors' = {}
    /\ submitted' = FALSE
    /\ heap' = Collect(heap, form', pending)
    /\ UNCHANGED <<pending, notice>>
    /\ Render

----------------------------------------------------------------------------
(* The state after construction.                                           *)

InitHeap ==
    [r \in Refs |-> IF r = EMPTY_FORM_lineItems THEN <<DEFAULT_LINE_ITEM>> ELSE <<>>]

Init ==
    /\ form = EMPTY_FORM
    /\ heap = InitHeap
    /\ errors = {}
    /\ submitted = FALSE
    /\ pending = <<>>
    /\ totalQty = computeTotalQty(<<DEFAULT_LINE_ITEM>>)
    /\ notice = "none"
    /\ events = 0
    /\ stale = <<>>

----------------------------------------------------------------------------
(* What the user can type and select.                                      *)

ACME == <<"A","C","M","E">>

BOB == <<"B","o","b">>

MAIL == <<"a","@","b",".","c","o">>

SHAFT == <<"S","h","a","f","t">>

\* onChange of the required text inputs, as <<field, e.target.value>>
TextInputs ==
    { <<"company", ACME>>, <<"contact", BOB>>, <<"email", MAIL>>,
      <<"deliveryDate", "2026-12-01">> }

\* onChange of the selects and the checkbox, as <<field, value>>
SelectInputs ==
    {<<"incoterms", v>> : v \in IncotermsOptions}
    \cup {<<"currency", v>> : v \in CurrencyOptions}
    \cup {<<"shippingPreference", v>> : v \in ShippingOptions}
    \cup {<<"NDA", v>> : v \in BOOLEAN}

\* e.target.value of the quantity input
QtyInputs == { <<>>, <<"3">>, <<"4">>, <<"-","1">> }

PartNameInputs == {[partName |-> SHAFT]}

\* onChange of the inputs of one position, as the patch handed over
LineInputs ==
    PartNameInputs
    \cup {[qty |-> Number(v)] : v \in QtyInputs}
    \cup {[notes |-> "see drawing"]}

File(name, size, type) ==
    [name |-> name, size |-> size, type |-> type, lastModified |-> 1700000000]

PDF == File(<<"a",".","p","d","f">>, 10, "application/pdf")

TXT == File(<<"p","a","r","t",".","t","x","t">>, 20, "text/plain")

STEP == File(<<"P","A","R","T",".","S","T","E","P">>, 30, "")

JPEG == File(<<"x",".","J","p","e","g">>, 40, "image/jpeg")

\* carries an allow-listed suffix, but not at its end
STEPTXT == File(<<"a",".","s","t","e","p",".","t","x","t">>, 50, "text/plain")

\* an allow-listed suffix without its dot
NODOT == File(<<"s","t","p">>, 60, "")

Candidates == {PDF, TXT, STEP, JPEG, STEPTXT, NODOT}

\* the FileLists the picker or a drop hands over: one or two files
FileLists ==
    {<<f>> : f \in Candidates} \cup {<<f, g>> : f \in Candidates, g \in Candidates}

----------------------------------------------------------------------------
(* The handlers the rendered view offers.                                  *)

InputText == \E e \in TextInputs : updateField(e[1], e[2])

InputSelect == \E e \in SelectInputs : updateField(e[1], e[2])

InputLineFrom(patches) ==
    \E i \in 0 .. MaxItems - 1 : \E patch \in patches :
        /\ i < Len(lineItemsOf(form))
        /\ updateLineItem(i, patch)

InputPartName == InputLineFrom(PartNameInputs)

InputLine == InputLineFrom(LineInputs)

ClickAdd == addLineItem

ClickRemove == \E i \in 0 .. MaxItems - 1 : RemoveButton(i)

SelectFilesFrom(lists) == \E files \in lists : onFilesSelected(files)

SelectFiles == SelectFilesFrom(FileLists)

SelectOneFile == SelectFilesFrom({<<PDF>>, <<TXT>>})

ClickRemoveFile ==
    \E idx \in 0 .. MaxFiles - 1 :
        /\ idx < Len(form.files)
        /\ removeFile(idx)

ClickSubmit == \E t \in Times : onSubmit(t)

Resolved == \E i \in 1 .. MaxPending : SubmitResolves(i)

Rejected == \E i \in 1 .. MaxPending : SubmitRejects(i)

ClickReset == Reset

----------------------------------------------------------------------------
(* Spec: the component, every handler, over runs of at most MaxEvents      *)
(* events.                                                                 *)

Handle(A) ==
    /\ events < MaxEvents
    /\ events' = events + 1
    /\ A
    /\ UNCHANGED stale

\* the focused specifications below do not count events
Only(A) ==
    /\ A
    /\ UNCHANGED <<events, stale>>

Next ==
    \/ Handle(InputText)
    \/ Handle(InputPartName)
    \/ Handle(ClickAdd)
    \/ Handle(ClickRemove)
    \/ Handle(SelectOneFile)
    \/ Handle(ClickRemoveFile)
    \/ Handle(ClickSubmit)
    \/ Handle(Resolved)
    \/ Handle(Rejected)
    \/ Handle(ClickReset)

Spec == Init /\ [][Next]_vars

----------------------------------------------------------------------------
(* SpecOps: the line-item operations called directly, with any index.      *)

Indices == -1 .. MaxItems

CallUpdateLineItem ==
    \E index \in Indices : \E patch \in LineInputs : updateLineItem(index, patch)

CallAddLineItem == addLineItem

CallRemoveLineItem == \E index \in Indices : removeLineItem(index)

NextOps ==
    \/ Only(CallUpdateLineItem)
    \/ Only(CallAddLineItem)
    \/ Only(CallRemoveLineItem)

SpecOps == Init /\ [][NextOps]_vars

----------------------------------------------------------------------------
(* SpecPatch: updateLineItem called with any index and with patches of one *)
(* key and of two keys, on lists that addLineItem grows.                   *)

Patches ==
    { [partName |-> SHAFT],
      [qty |-> Number(<<>>)],
      [qty |-> Number(<<"3">>)],
      [material |-> "steel", notes |-> "see drawing"] }

CallPatch ==
    \E index \in Indices : \E patch \in Patches : updateLineItem(index, patch)

NextPatch ==
    \/ Only(CallPatch)
    \/ Only(CallAddLineItem)

SpecPatch == Init /\ [][NextPatch]_vars

----------------------------------------------------------------------------
(* SpecLines: the positions section of the view.                           *)

NextLines ==
    \/ Only(InputLine)
    \/ Only(ClickAdd)
    \/ Only(ClickRemove)
    \/ Only(ClickReset)

SpecLines == Init /\ [][NextLines]_vars

----------------------------------------------------------------------------
(* SpecFiles: the files section of the view.                               *)

NextFiles ==
    \/ Only(SelectFiles)
    \/ Only(ClickRemoveFile)
    \/ Only(InputText)
    \/ Only(ClickReset)

SpecFiles == Init /\ [][NextFiles]_vars

----------------------------------------------------------------------------
(* SpecEnums: the selects and the checkbox.                                *)

NextEnums ==
    \/ Only(InputSelect)
    \/ Only(ClickReset)

SpecEnums == Init /\ [][NextEnums]_vars

----------------------------------------------------------------------------
(* SpecForms: validate and buildPayload applied to forms drawn from        *)
(* bounded sets of field values.                                           *)

BlankTexts == { <<>>, <<" ", "\t">> }

CompanyTexts == BlankTexts \cup { ACME, <<" ","A"," ">> }

ContactTexts == { <<>>, BOB }

EmailTexts ==
    { <<>>, MAIL,
      <<"n","o","t","-","a","n","-","e","m","a","i","l">>,
      <<"a","@","b">>,
      <<"a"," ","b","@","c",".","d">>,
      <<"a","@","@","b",".","c">>,
      <<"@","b",".","c">>,
      <<"a","@","b",".">>,
      <<"a","@","b",".",".","c">> }

DateTexts == { "", "2026-12-01" }

DrawnItems ==
    { [DEFAULT_LINE_ITEM EXCEPT !.partName = n, !.qty = q] :
        n \in BlankTexts \cup {SHAFT}, q \in {-1, 0, 1, 3} }

DrawnLines == UNION { [1..n -> DrawnItems] : n \in 0 .. MaxItems }

ValidItem == [DEFAULT_LINE_ITEM EXCEPT !.partName = SHAFT, !.qty = 3]

ValidText ==
    [EMPTY_FORM EXCEPT !.company = ACME, !.contact = BOB, !.email = MAIL,
                       !.deliveryDate = "2026-12-01"]

\* company and contact hold nothing but whitespace
BlankText ==
    [EMPTY_FORM EXCEPT !.company = <<" ", "\t">>, !.contact = <<" ">>]

DrawnFiles == { <<>>, <<PDF>>, <<STEP, PDF>> }

\* <<form without its line items, line items>>
DrawnForms ==
    { << [EMPTY_FORM EXCEPT !.company = c, !.contact = k, !.email = m,
                            !.deliveryDate = d], l >> :
        c \in CompanyTexts, k \in ContactTexts, m \in EmailTexts,
        d \in DateTexts, l \in { <<DEFAULT_LINE_ITEM>>, <<ValidItem>> } }
    \cup { <<f, l>> : f \in {EMPTY_FORM, ValidText, BlankText}, l \in DrawnLines }
    \cup { << [f EXCEPT !.incoterms = i, !.currency = c, !.NDA = n,
                        !.shippingPreference = s, !.files = fs,
                        !.phone = ph], <<ValidItem>> >> :
            f \in {EMPTY_FORM, ValidText}, i \in IncotermsOptions,
            c \in CurrencyOptions, n \in BOOLEAN, s \in ShippingOptions,
            fs \in DrawnFiles, ph \in {"", "+49 30 1234"} }

InitForms ==
    \/ Init
    \/ \E d \in DrawnForms :
        /\ form = [d[1] EXCEPT !.lineItems = 1]
        /\ heap = [InitHeap EXCEPT ![1] = d[2]]
        /\ errors = {}
        /\ submitted = FALSE
        /\ pending = <<>>
        /\ totalQty = computeTotalQty(d[2])
        /\ notice = "none"
        /\ events = 0
        /\ stale = <<>>

NextForms ==
    \/ Only(ClickSubmit)
    \/ Only(Resolved)
    \/ Only(Rejected)

SpecForms == InitForms /\ [][NextForms]_vars

----------------------------------------------------------------------------
(* SpecReset: filling the form, submitting and resetting, over runs of at  *)
(* most MaxEvents events, with the history of which calls in flight were   *)
(* started before the last reset.                                          *)

\* one event handled; s is the history after it
Since(A, s) ==
    /\ events < MaxEvents
    /\ events' = events + 1
    /\ A
    /\ stale' = s

\* a call started by this click has seen no reset
SubmitSince ==
    Since(ClickSubmit,
          IF Len(pending') > Len(pending) THEN Append(stale, FALSE) ELSE stale)

ResolvedSince == \E i \in 1 .. MaxPending : Since(SubmitResolves(i), without(stale, i))

RejectedSince == \E i \in 1 .. MaxPending : Since(SubmitRejects(i), without(stale, i))

\* every call in flight at the click was started before it
ResetSince == Since(ClickReset, [k \in 1 .. Len(pending) |-> TRUE])

NextReset ==
    \/ Since(InputText, stale)
    \/ Since(InputPartName, stale)
    \/ SubmitSince
    \/ ResolvedSince
    \/ RejectedSince
    \/ ResetSince

SpecReset == Init /\ [][NextReset]_vars

----------------------------------------------------------------------------
(* The claims.                                                             *)

\* C1: removeLineItem(index) called on a form whose lineItems has exactly
\* one element is a no-op: for every index, lineItems is unchanged and its
\* length stays 1.  (The code filters out position `index` whatever the
\* length, so removeLineItem(0) leaves no line item.)
C1_RemoveOnSingleIsNoOp ==
    [][\A index \in Indices :
          (Len(heap[form.lineItems]) = 1 /\ removeLineItem(index))
              => /\ heap'[form'.lineItems] = heap[form.lineItems]
                 /\ Len(heap'[form'.lineItems]) = 1]_vars

\* C2: in every state reachable from the initial form by the actions the
\* view offers (field edits, add, remove through its button, file add and
\* remove, submit and its outcome, reset), form.lineItems has length >= 1.
C2_AtLeastOneLineItem == Len(heap[form.lineItems]) >= 1

\* a submit handed over two positions, and one of them was removed since
C2_Witness ==
    /\ Len(pending) = 1
    /\ Len(pending[1].handed.lineItems) = 2
    /\ Len(heap[form.lineItems]) = 1
    /\ heap[form.lineItems][1].partName = SHAFT
    /\ form.company = ACME

\* the nine allow-listed suffixes, as the claim lists them
AllowListedSuffixes ==
    { <<".","s","t","e","p">>, <<".","s","t","p">>, <<".","i","g","e","s">>,
      <<".","i","g","s">>, <<".","d","x","f">>, <<".","p","d","f">>,
      <<".","p","n","g">>, <<".","j","p","g">>, <<".","j","p","e","g">> }

\* the lowercased name is some prefix followed by an allow-listed suffix
AllowListed(name) ==
    LET lower == toLowerCase(name) IN
    \E k \in 0 .. Len(lower) : SubSeq(lower, k + 1, Len(lower)) \in AllowListedSuffixes

\* C3: for every batch of candidate files, onFilesSelected accepts a
\* candidate iff its lowercased name ends with one of the nine allow-listed
\* suffixes; accepted and rejected candidates partition the batch; the new
\* files are the old files, unchanged and in order, followed by exactly the
\* accepted candidates in batch order; a rejected candidate never is in
\* files.
C3_FilesPartitioned ==
    /\ [](\A i \in 1..Len(form.files) : AllowListed(form.files[i].name))
    /\ [][\A files \in FileLists :
            onFilesSelected(files) =>
                LET acc == SelectSeq(files, LAMBDA f : AllowListed(f.name))
                    rej == SelectSeq(files, LAMBDA f : ~AllowListed(f.name))
                IN /\ validFiles(files) = acc
                   /\ rejectedFiles(files, validFiles(files)) = rej
                   /\ Range(acc) \cap Range(rej) = {}
                   /\ Len(acc) + Len(rej) = Len(files)
                   /\ form'.files = form.files \o acc
                   /\ (rej # <<>> => notice' = "rejectedFiles")]_vars

\* "PART.STEP" was accepted after an earlier file, and a batch lost a file
C3_Witness ==
    /\ form.files = <<PDF, STEP>>
    /\ notice = "rejectedFiles"

\* blank after trimming: nothing but whitespace
IsBlank(s) == \A i \in 1..Len(s) : s[i] \in Whitespace

\* local part, "@", domain part with a "." inside it, and no whitespace or
\* further "@" anywhere
MatchesEmailPattern(s) ==
    /\ \A i \in 1..Len(s) : s[i] \notin Whitespace
    /\ Cardinality({i \in 1..Len(s) : s[i] = "@"}) = 1
    /\ LET at == CHOOSE i \in 1..Len(s) : s[i] = "@" IN
        /\ at > 1
        /\ \E j \in (at + 2) .. (Len(s) - 1) : s[j] = "."

\* the violated rules of form f with line items `items`, rule by rule
Violations(f, items) ==
    {k \in {"company", "contact"} : IsBlank(f[k])}
    \cup {k \in {"email"} : ~MatchesEmailPattern(f.email)}
    \cup {k \in {"deliveryDate"} : f.deliveryDate = ""}
    \cup {k \in {"lineItems"} : items = <<>>}
    \cup {"li_" \o ToString(i) \o "_partName" :
            i \in {j \in 0 .. Len(items) - 1 : IsBlank(items[j + 1].partName)}}
    \cup {"li_" \o ToString(i) \o "_qty" :
            i \in {j \in 0 .. Len(items) - 1 : ~(items[j + 1].qty > 0)}}

\* C4: validate produces exactly the set of violated rules, each rule
\* checked on its own, and succeeds iff that set is empty; the default form
\* yields exactly the 5 violations company, contact, email, deliveryDate
\* and partName of item 0.
C4_ValidateReportsEveryViolation ==
    [][ClickSubmit =>
        /\ errors' = Violations(form, heap[form.lineItems])
        /\ (Len(pending') > Len(pending)) <=> (Violations(form, heap[form.lineItems]) = {})
        /\ form = EMPTY_FORM =>
            /\ errors' = {"company", "contact", "email", "deliveryDate", "li_0_partName"}
            /\ Cardinality(errors') = 5]_vars

\* two positions, both violating both of their rules, and a blank company
C4_Witness ==
    /\ Len(heap[form.lineItems]) = 2
    /\ form.company = <<" ", "\t">>
    /\ errors = {"company", "contact", "email", "deliveryDate",
                 "li_0_partName", "li_0_qty", "li_1_partName", "li_1_qty"}

\* C5: each submit action calls submitRFQ at most once, and exactly once iff
\* the form at that moment violates no rule; when a rule is violated
\* submitRFQ is not called and submitted is not set; every payload handed to
\* submitRFQ has at least one line item.
C5_SubmitIffValid ==
    /\ [](\A i \in 1..Len(pending) : Len(pending[i].handed.lineItems) >= 1)
    /\ [][/\ Len(pending') <= Len(pending) + 1
          /\ ClickSubmit =>
              LET ok == Violations(form, heap[form.lineItems]) = {} IN
              /\ Len(pending') = Len(pending) + (IF ok THEN 1 ELSE 0)
              /\ ~ok => (pending' = pending /\ submitted' = submitted)]_vars

\* a valid form was submitted once, cleanly
C5_Witness ==
    /\ Len(pending) = 1
    /\ errors = {}
    /\ Violations(form, heap[form.lineItems]) = {}

\* C6: while a submit is pending, whatever else the user does, the payload
\* handed to it is unchanged: it is what buildPayload gave for the form of
\* the moment the submit started.
C6_PendingPayloadUnchanged ==
    \A i \in 1..Len(pending) :
        payloadValue(pending[i].payload, heap) = pending[i].handed

\* a submit is pending and the form has another position and a file since
C6_Witness ==
    /\ Len(pending) = 1
    /\ Len(pending[1].handed.lineItems) = 1
    /\ Len(heap[form.lineItems]) = 2
    /\ pending[1].handed.files = <<>>
    /\ form.files # <<>>

\* C7: when the submit call resolves, submitted becomes true; when it fails,
\* the form (fields, files, line items) and submitted are what they were, a
\* failure notice is shown, and the form can be edited and submitted again.
C7_SubmitOutcome ==
    [][/\ Resolved => submitted'
       /\ Rejected =>
            /\ form' = form
            /\ heap'[form'.lineItems] = heap[form.lineItems]
            /\ submitted' = submitted
            /\ notice' = "failure"
            /\ (ENABLED ClickSubmit)'
            /\ (ENABLED InputText)']_vars

\* after a failure the same form is in flight again
C7_Witness ==
    /\ notice = "failure"
    /\ ~submitted
    /\ Len(pending) = 1
    /\ form.company = ACME

RECURSIVE SumOfQty(_, _)
\* the sum of the qty of the first n line items
SumOfQty(items, n) ==
    IF n = 0 THEN 0 ELSE SumOfQty(items, n - 1) + items[n].qty

\* C8: after any sequence of add, remove, update and reset, totalQty is the
\* sum of the qty of the current line items (an empty quantity input is
\* stored as 0).
C8_TotalQtyIsSum ==
    totalQty = SumOfQty(heap[form.lineItems], Len(heap[form.lineItems]))

\* quantities 3 and 4
C8_Witness ==
    /\ Len(heap[form.lineItems]) = 2
    /\ heap[form.lineItems][1].qty = 3
    /\ heap[form.lineItems][2].qty = 4
    /\ totalQty = 7

ScalarFields ==
    {"company", "contact", "email", "phone", "address", "incoterms",
     "deliveryDate", "currency", "NDA", "shippingPreference"}

\* payload p is the envelope of form f
PayloadMatches(p, f) ==
    /\ p.meta.app = "ManufacturingRFQApp"
    /\ p.meta.version = 1
    /\ DOMAIN p = {"meta", "files", "lineItems"} \cup ScalarFields
    /\ \A k \in ScalarFields : p[k] = f[k]
    /\ heap[p.lineItems] = heap[f.lineItems]
    /\ Len(p.files) = Len(f.files)
    /\ \A i \in 1..Len(f.files) :
        /\ DOMAIN p.files[i] = {"name", "size", "type"}
        /\ p.files[i].name = f.files[i].name
        /\ p.files[i].size = f.files[i].size
        /\ p.files[i].type = f.files[i].type

\* C9: buildPayload gives an envelope with meta.app the app name and
\* meta.version 1, every field and the line items those of the state, the
\* files those of the state in order, each reduced to {name, size, type};
\* apart from meta.createdAt two calls agree; the form is left unchanged.
C9_PayloadOfState ==
    /\ [](\A t \in Times : PayloadMatches(buildPayload(form, t), form))
    /\ [](\A t1 \in Times : \A t2 \in Times :
            [buildPayload(form, t1) EXCEPT !.meta.createdAt = 0]
                = [buildPayload(form, t2) EXCEPT !.meta.createdAt = 0])
    /\ [][(ClickSubmit /\ Len(pending') > Len(pending)) =>
            /\ form' = form
            /\ heap' = heap
            /\ PayloadMatches(pending'[Len(pending')].payload, form)]_vars

\* a payload with two files and other than the default terms is in flight
C9_Witness ==
    /\ Len(pending) = 1
    /\ Len(pending[1].payload.files) = 2
    /\ pending[1].payload.incoterms = "EXW"
    /\ pending[1].payload.NDA

\* C10 as amended: in every reachable state incoterms is one of EXW, FCA,
\* CPT, CIP, DAP, DDP, currency one of EUR, USD, GBP, AED, INR, and
\* shippingPreference one of "Best Available", "Express", "Economy",
\* "Abholung"; the initial values are DAP, EUR and "Best Available".
C10_EnumsHoldCodeLiterals ==
    /\ form.incoterms = "DAP"
    /\ form.currency = "EUR"
    /\ form.shippingPreference = "Best Available"
    /\ [](/\ form.incoterms \in {"EXW", "FCA", "CPT", "CIP", "DAP", "DDP"}
          /\ form.currency \in {"EUR", "USD", "GBP", "AED", "INR"}
          /\ form.shippingPreference
                \in {"Best Available", "Express", "Economy", "Abholung"})

\* every select is off its default
C10_Witness ==
    /\ form.incoterms = "EXW"
    /\ form.currency = "INR"
    /\ form.shippingPreference = "Abholung"

\* C10: in every reachable state incoterms is one of EXW, FCA, CPT, CIP,
\* DAP, DDP, currency one of EUR, USD, GBP, AED, INR, and shippingPreference
\* one of BestAvailable, Express, Economy, Pickup; the initial values are
\* DAP, EUR and BestAvailable.
C10_EnumsHoldSpecLiterals ==
    /\ form.incoterms = "DAP"
    /\ form.currency = "EUR"
    /\ form.shippingPreference = "BestAvailable"
    /\ [](/\ form.incoterms \in {"EXW", "FCA", "CPT", "CIP", "DAP", "DDP"}
          /\ form.currency \in {"EUR", "USD", "GBP", "AED", "INR"}
          /\ form.shippingPreference
                \in {"BestAvailable", "Express", "Economy", "Pickup"})

\* the form without its line items: every other field, the files included
otherFields(f) == [k \in DOMAIN f \ {"lineItems"} |-> f[k]]

\* the line item at position index (counted from 0) differs from before in
\* the keys of patch only, where it holds the patch's values; nothing else
\* of the component's state differs
OnlyPatched(index, patch) ==
    LET before == heap[form.lineItems]
        after == heap'[form'.lineItems]
    IN  /\ Len(after) = Len(before)
        /\ \A k \in 1..Len(before) :
              IF k - 1 = index
              THEN /\ DOMAIN after[k] = DOMAIN before[k] \cup DOMAIN patch
                   /\ \A key \in DOMAIN patch : after[k][key] = patch[key]
                   /\ \A key \in DOMAIN before[k] \ DOMAIN patch :
                         after[k][key] = before[k][key]
              ELSE after[k] = before[k]
        /\ otherFields(form') = otherFields(form)
        /\ errors' = errors
        /\ submitted' = submitted
        /\ pending' = pending
        /\ notice' = notice

\* C11: updateLineItem(index, patch) with an index inside lineItems changes
\* only the keys named in patch on the line item at that position; every
\* other line item, the order and the length of lineItems, every other form
\* field, the files, the stored errors and the submitted flag stay as they
\* were. With an index outside lineItems the whole state keeps its value.
C11_UpdateLineItemFrame ==
    [][\A index \in Indices : \A patch \in Patches :
          updateLineItem(index, patch) =>
              /\ OnlyPatched(index, patch)
              /\ index \notin 0..(Len(heap[form.lineItems]) - 1) =>
                    /\ heap'[form'.lineItems] = heap[form.lineItems]
                    /\ totalQty' = totalQty]_vars

\* two line items: the second carries a patched quantity, material and
\* note and its untouched tolerance, the first is as it was added
C11_Witness ==
    /\ Len(lineItemsOf(form)) = 2
    /\ lineItemsOf(form)[2].qty = 3
    /\ lineItemsOf(form)[2].notes = "see drawing"
    /\ lineItemsOf(form)[2].material = "steel"
    /\ lineItemsOf(form)[2].tolerance = ""
    /\ lineItemsOf(form)[1].qty = 1
    /\ lineItemsOf(form)[1].notes = ""

\* C12: after the reset action the form equals the defaults, the stored
\* errors are empty and submitted is false, and submitted then stays false
\* until a submit that was started after that reset resolves successfully,
\* also when a submit was still in flight at the moment of the reset: the
\* flag rises only when a call that has seen no reset resolves.  (The call
\* in flight at the reset resolves later and sets the flag.)
C12_SubmittedOnlyByLaterSubmit ==
    [][/\ ClickReset =>
            /\ otherFields(form') = otherFields(EMPTY_FORM)
            /\ heap'[form'.lineItems] = <<DEFAULT_LINE_ITEM>>
            /\ errors' = {}
            /\ submitted' = FALSE
       /\ (~submitted /\ submitted') =>
            \E i \in 1 .. Len(pending) :
                /\ ~stale[i]
                /\ SubmitResolves(i)
                /\ stale' = without(stale, i)]_vars

====
